---- MODULE Spec2Model ----
(* The gook validation engine: rule trees (Test, All, Any, Not, Then), their  *)
(* recursive evaluation against a value and a cancellation signal, and the    *)
(* Result tree each evaluation returns.                                       *)
EXTENDS Integers, Sequences, FiniteSets

\* ---------------------------------------------------------------- bounds
\* longest child list of a combinator built for the check
MaxChildren == 2
\* input values carry a payload in 0..MaxVal (0 is the zero value)
MaxVal == 1
\* the cancellation signal fires before the k-th sampling of ctx.Done(), k in 0..MaxCancel
MaxCancel == 3
MaxCallers == 2

\* ---------------------------------------------------------------- kinds, statuses
KindTest == 0
KindAll == 1
KindAny == 2
KindNot == 3
KindThen == 4
\* a kind value outside the declared constants (malformed manual construction)
KindUndeclared == KindThen + 1

StatusPass == 0
StatusFail == 1
StatusSkip == 2

\* RuleKind.String()
KindString(k) ==
    CASE k = KindTest -> "test"
      [] k = KindAll -> "all"
      [] k = KindAny -> "any"
      [] k = KindNot -> "not"
      [] k = KindThen -> "then"
      [] OTHER -> "unknown"

\* ResultStatus.String()
StatusString(st) ==
    CASE st = StatusPass -> "PASS"
      [] st = StatusFail -> "FAIL"
      [] st = StatusSkip -> "SKIP"
      [] OTHER -> "UNKNOWN"

\* ---------------------------------------------------------------- values, errors, closures
\* a Go value with its runtime type: T is the pipeline's input type, U its output type
Value(ty, n) == [ty |-> ty, n |-> n]

\* the nil value of an interface type; fmt's %T prints its type as <nil>
NilValue == Value("<nil>", 0)

\* val.(U): "any" stands for an interface type, which a nil interface value does not
\* assert to; a concrete type asserts by identity
Asserts(v, U) == IF U = "any" THEN v.ty # "<nil>" ELSE v.ty = U

\* fmt's %T of *new(U): the zero value of an interface type is nil
TypeName(U) == IF U = "any" THEN "<nil>" ELSE U

\* error values: nil, or an error carrying a message
NilErr == [isNil |-> TRUE, msg |-> ""]
Err(m) == [isNil |-> FALSE, msg |-> m]

\* a nil function value / a nil *Rule
NilFn == [nilFn |-> TRUE]
NilRule == [nilRule |-> TRUE]

\* a caller-supplied predicate; wrap is "none" for a predicate over its own type and
\* the name of U for the closure typeEraseRule builds around it
Fn(p) == [pred |-> p, wrap |-> "none"]

\* the caller-supplied predicates used to build rules
Preds == {"pass", "fail", "nonzero"}

\* what a caller-supplied predicate returns on a value
PredErr(p, v) ==
    CASE p = "pass" -> NilErr
      [] p = "fail" -> Err("validation failed")
      [] p = "nonzero" -> IF v.n = 0 THEN Err("required field is missing") ELSE NilErr
      [] p = "joined" -> Err("too short\ntoo plain")
      [] p = "as" -> NilErr

\* the caller-supplied transforms T -> (U, error)
Transforms == {"conv", "parse", "reject", "lossy"}

\* the caller-supplied transforms U -> (V, error) a pipeline is chained with
ChainTransforms == {"scale", "check"}

\* what a transform returns: conv always succeeds, parse fails on the zero value,
\* reject always fails, all three with the zero value of U on failure; lossy fails
\* and returns the converted value next to its error; scale always succeeds and
\* check fails on the zero value
TransformOut(t, v) ==
    CASE t = "conv" -> [val |-> Value("U", v.n), err |-> NilErr]
      [] t = "parse" -> IF v.n = 0 THEN [val |-> Value("U", 0), err |-> Err("not a number")]
                                   ELSE [val |-> Value("U", v.n), err |-> NilErr]
      [] t = "reject" -> [val |-> Value("U", 0), err |-> Err("invalid string")]
      [] t = "lossy" -> [val |-> Value("U", v.n), err |-> Err("out of range")]
      [] t = "scale" -> [val |-> Value("V", v.n), err |-> NilErr]
      [] t = "check" -> IF v.n = 0 THEN [val |-> Value("V", 0), err |-> Err("not positive")]
                                   ELSE [val |-> Value("V", v.n), err |-> NilErr]
      [] t = "decode" -> IF v.n = 0 THEN [val |-> NilValue, err |-> NilErr]
                                    ELSE [val |-> Value("U", v.n), err |-> NilErr]

\* the result type a transform is declared with: decode returns an interface value
\* (nil for the zero input, a boxed U otherwise)
OutType(t) ==
    CASE t \in {"scale", "check"} -> "V"
      [] t = "decode" -> "any"
      [] OTHER -> "U"

\* ---------------------------------------------------------------- rules and results
Rule(label, kind, fn, children, transform, next) ==
    [Label |-> label, Kind |-> kind, TestFn |-> fn, Children |-> children,
     Transform |-> transform, NextRule |-> next]

Result(status, label, kind, message, children) ==
    [Status |-> status, Label |-> label, Kind |-> kind, Message |-> message,
     Children |-> children]

\* Result.OK()
\* OK counting everything but Fail as a success
OKNotFail(res) == res.Status # StatusFail

OK(res) == res.Status = StatusPass

RECURSIVE Repeat(_, _)
\* strings.Repeat
Repeat(str, count) == IF count <= 0 THEN "" ELSE str \o Repeat(str, count - 1)

RECURSIVE formatRecursiveFlat(_, _)
\* formatRecursive writing the children at their parent's depth
formatRecursiveFlat(res, depth) ==
    LET indent == Repeat("  ", depth)
        line == IF res.Message # ""
                THEN indent \o "[" \o StatusString(res.Status) \o "] " \o res.Label
                     \o " (" \o KindString(res.Kind) \o "): " \o res.Message \o "\n"
                ELSE indent \o "[" \o StatusString(res.Status) \o "] " \o res.Label
                     \o " (" \o KindString(res.Kind) \o ")\n"
        RECURSIVE children(_)
        children(i) == IF i > Len(res.Children) THEN ""
                       ELSE formatRecursiveFlat(res.Children[i], depth) \o children(i + 1)
    IN  line \o children(1)

RECURSIVE formatRecursive(_, _)
\* Result.formatRecursive: what it writes to the builder, the node's line and then
\* each child at depth + 1
formatRecursive(res, depth) ==
    LET indent == Repeat("  ", depth)
        line == IF res.Message # ""
                THEN indent \o "[" \o StatusString(res.Status) \o "] " \o res.Label
                     \o " (" \o KindString(res.Kind) \o "): " \o res.Message \o "\n"
                ELSE indent \o "[" \o StatusString(res.Status) \o "] " \o res.Label
                     \o " (" \o KindString(res.Kind) \o ")\n"
        RECURSIVE children(_)
        children(i) == IF i > Len(res.Children) THEN ""
                       ELSE formatRecursive(res.Children[i], depth + 1) \o children(i + 1)
    IN  line \o children(1)

\* Result.Format
Format(res) == formatRecursive(res, 0)

RECURSIVE NodeCount(_)
\* the number of Result values a tree is made of (one &Result{} each)
NodeCount(res) ==
    LET RECURSIVE below(_)
        below(i) == IF i > Len(res.Children) THEN 0
                    ELSE NodeCount(res.Children[i]) + below(i + 1)
    IN  1 + below(1)

Test(label, fn) == Rule(label, KindTest, fn, <<>>, NilFn, NilRule)

All(rules) == Rule("all", KindAll, NilFn, rules, NilFn, NilRule)

Any(rules) == Rule("any", KindAny, NilFn, rules, NilFn, NilRule)

Not(rule) == Rule("not", KindNot, NilFn, <<rule>>, NilFn, NilRule)

RECURSIVE typeEraseRule(_, _)
\* typeEraseRule[U]: copies Label and Kind, wraps TestFn in a type assertion to U,
\* erases the children; Transform and NextRule are not copied
typeEraseRule(rule, U) ==
    IF rule = NilRule THEN NilRule
    ELSE Rule(rule.Label, rule.Kind,
              IF rule.TestFn = NilFn THEN NilFn ELSE [rule.TestFn EXCEPT !.wrap = U],
              [i \in 1..Len(rule.Children) |-> typeEraseRule(rule.Children[i], U)],
              NilFn, NilRule)

\* Then[T, U]: the first rule is stored as the only child, also when it is nil
Then(first, transform, next) ==
    Rule("then", KindThen, NilFn, <<first>>, [name |-> transform],
         typeEraseRule(next, OutType(transform)))

\* As[T]: a Then behind a pass-through Test labelled "as"
As(transformFn, rule) == Then(Test("as", Fn("as")), transformFn, rule)

\* fmt's %d of an int
Digits == <<"0", "1", "2", "3", "4", "5", "6", "7", "8", "9">>

RECURSIVE IntStr(_)
IntStr(n) ==
    IF n < 0 THEN "-" \o IntStr(0 - n)
    ELSE IF n < 10 THEN Digits[n + 1]
    ELSE IntStr(n \div 10) \o Digits[(n % 10) + 1]

\* the helper constructors: Test rules whose closure holds the given rules
OneOf(rules) == Test("one-of", [pred |-> "one-of", wrap |-> "none", rules |-> rules])

AtLeastN(n, rules) ==
    Test("at-least-" \o IntStr(n),
         [pred |-> "at-least", wrap |-> "none", n |-> n, rules |-> rules])

Optional(r) == Test("optional", [pred |-> "optional", wrap |-> "none", rule |-> r])

\* ---------------------------------------------------------------- evaluation
\* The evaluation threads a world w: tick counts the samplings of ctx.Done() so far,
\* calls logs every invocation of a caller-supplied predicate or transform, and
\* panicked records a run-time panic (which unwinds the whole evaluation).
World0 == [tick |-> 0, calls |-> <<>>, panicked |-> FALSE]

NoResult == [none |-> TRUE]

Panic(w) == [res |-> NoResult, w |-> [w EXCEPT !.panicked = TRUE]]

\* a signal that reaches the node whose work is under way when it fires
DonePreempts(ctx, tick) == ctx.fires /\ ctx.at <= tick + 1

\* a signal noticed only when it had fired before the evaluation started
DoneAtEntry(ctx, tick) == ctx.fires /\ ctx.at = 0

\* select { case <-ctx.Done(): ... default: } at the tick-th sampling
Done(ctx, tick) == ctx.fires /\ ctx.at <= tick


\* Skip placeholders labelled after the combinator's first children
SkipsFromShifted(r, j) ==
    [k \in 1..(Len(r.Children) - j + 1) |->
        Result(StatusSkip, r.Children[k].Label, r.Children[k].Kind, "", <<>>)]

\* Skip placeholders for children j..n of r; reading the label of a nil child panics
SkipsFrom(r, j) ==
    [k \in 1..(Len(r.Children) - j + 1) |->
        Result(StatusSkip, r.Children[j + k - 1].Label, r.Children[j + k - 1].Kind, "", <<>>)]

HasNilFrom(r, j) == \E k \in j..Len(r.Children) : r.Children[k] = NilRule

RECURSIVE validateRecursive(_, _, _, _)

\* %v of an error value
ErrString(e) == IF e.isNil THEN "<nil>" ELSE e.msg

\* reflect.DeepEqual(value, zero)
IsZero(v) == v.n = 0

RECURSIVE oneOfLoopEarlyExit(_, _, _, _, _, _, _)
\* the closure of OneOf giving up as soon as a second rule has passed
oneOfLoopEarlyExit(rules, ctx, v, i, passCount, lastError, w) ==
    IF i > Len(rules) \/ passCount > 1
    THEN [err |-> IF passCount = 0
                  THEN Err("none of the rules passed: " \o ErrString(lastError))
                  ELSE IF passCount > 1
                  THEN Err("multiple rules passed (expected exactly one)")
                  ELSE NilErr,
          w |-> w]
    ELSE LET c == validateRecursive(rules[i], ctx, v, w) IN
         IF c.w.panicked THEN [err |-> NilErr, w |-> c.w]
         ELSE IF OK(c.res)
         THEN oneOfLoopEarlyExit(rules, ctx, v, i + 1, passCount + 1, lastError, c.w)
         ELSE oneOfLoopEarlyExit(rules, ctx, v, i + 1, passCount, Err(c.res.Message), c.w)

RECURSIVE oneOfLoop(_, _, _, _, _, _, _)
\* the closure of OneOf: the loop at index i, then the verdict on passCount
oneOfLoop(rules, ctx, v, i, passCount, lastError, w) ==
    IF i > Len(rules)
    THEN [err |-> IF passCount = 0
                  THEN Err("none of the rules passed: " \o ErrString(lastError))
                  ELSE IF passCount > 1
                  THEN Err("multiple rules passed (expected exactly one)")
                  ELSE NilErr,
          w |-> w]
    ELSE LET c == validateRecursive(rules[i], ctx, v, w) IN
         IF c.w.panicked THEN [err |-> NilErr, w |-> c.w]
         ELSE IF OK(c.res)
         THEN oneOfLoop(rules, ctx, v, i + 1, passCount + 1, lastError, c.w)
         ELSE oneOfLoop(rules, ctx, v, i + 1, passCount, Err(c.res.Message), c.w)

RECURSIVE atLeastLoopEarlyExit(_, _, _, _, _, _, _)
\* the closure of AtLeastN returning as soon as n rules have passed
atLeastLoopEarlyExit(n, rules, ctx, v, i, passCount, w) ==
    IF i > Len(rules) \/ passCount >= n
    THEN [err |-> IF passCount < n
                  THEN Err("only " \o IntStr(passCount) \o " rules passed (expected at least "
                           \o IntStr(n) \o ")")
                  ELSE NilErr,
          w |-> w]
    ELSE LET c == validateRecursive(rules[i], ctx, v, w) IN
         IF c.w.panicked THEN [err |-> NilErr, w |-> c.w]
         ELSE atLeastLoopEarlyExit(n, rules, ctx, v, i + 1,
                                   IF OK(c.res) THEN passCount + 1 ELSE passCount, c.w)

RECURSIVE atLeastLoop(_, _, _, _, _, _, _)
\* the closure of AtLeastN: the loop at index i, then the verdict on passCount
atLeastLoop(n, rules, ctx, v, i, passCount, w) ==
    IF i > Len(rules)
    THEN [err |-> IF passCount < n
                  THEN Err("only " \o IntStr(passCount) \o " rules passed (expected at least "
                           \o IntStr(n) \o ")")
                  ELSE NilErr,
          w |-> w]
    ELSE LET c == validateRecursive(rules[i], ctx, v, w) IN
         IF c.w.panicked THEN [err |-> NilErr, w |-> c.w]
         ELSE atLeastLoop(n, rules, ctx, v, i + 1,
                          IF OK(c.res) THEN passCount + 1 ELSE passCount, c.w)

\* the closure of Optional validating the zero value like any other
optionalFnAlways(r, ctx, v, w) ==
    LET c == validateRecursive(r, ctx, v, w) IN
    IF c.w.panicked THEN [err |-> NilErr, w |-> c.w]
    ELSE [err |-> IF ~OK(c.res) THEN Err(c.res.Message) ELSE NilErr, w |-> c.w]

\* the closure of Optional
optionalFn(r, ctx, v, w) ==
    IF IsZero(v) THEN [err |-> NilErr, w |-> w]
    ELSE LET c == validateRecursive(r, ctx, v, w) IN
         IF c.w.panicked THEN [err |-> NilErr, w |-> c.w]
         ELSE [err |-> IF ~OK(c.res) THEN Err(c.res.Message) ELSE NilErr, w |-> c.w]

\* calling a TestFn closure: the typeEraseRule wrapper asserts the type first; a
\* helper's closure validates the rules it holds under the same ctx, a caller-supplied
\* predicate is logged
CallTestFn(fn, ctx, v, w) ==
    IF fn.wrap # "none" /\ ~Asserts(v, fn.wrap)
    THEN [err |-> Err("type assertion failed: expected " \o TypeName(fn.wrap)
                      \o ", got " \o v.ty),
          w |-> w]
    ELSE CASE fn.pred = "one-of" -> oneOfLoop(fn.rules, ctx, v, 1, 0, NilErr, w)
           [] fn.pred = "at-least" -> atLeastLoop(fn.n, fn.rules, ctx, v, 1, 0, w)
           [] fn.pred = "optional" -> optionalFn(fn.rule, ctx, v, w)
           [] OTHER ->
                [err |-> PredErr(fn.pred, v),
                 w |-> [w EXCEPT !.calls = Append(@, [fn |-> fn.pred, arg |-> v])]]

RECURSIVE allLoop(_, _, _, _, _, _)
RECURSIVE anyLoop(_, _, _, _, _, _)

\* validateTest leaving a note on a passing result
validateTestPassNote(r, ctx, value, w) ==
    IF r.TestFn = NilFn THEN Panic(w)
    ELSE LET c == CallTestFn(r.TestFn, ctx, value, w) IN
         IF c.w.panicked THEN Panic(c.w)
         ELSE IF ~c.err.isNil
         THEN [res |-> Result(StatusFail, r.Label, KindTest, c.err.msg, <<>>), w |-> c.w]
         ELSE [res |-> Result(StatusPass, r.Label, KindTest, "ok", <<>>), w |-> c.w]

validateTest(r, ctx, value, w) ==
    IF r.TestFn = NilFn THEN Panic(w)
    ELSE LET c == CallTestFn(r.TestFn, ctx, value, w) IN
         IF c.w.panicked THEN Panic(c.w)
         ELSE IF ~c.err.isNil
         THEN [res |-> Result(StatusFail, r.Label, KindTest, c.err.msg, <<>>), w |-> c.w]
         ELSE [res |-> Result(StatusPass, r.Label, KindTest, "", <<>>), w |-> c.w]

RECURSIVE allLoopNoBreak(_, _, _, _, _, _)
\* validateAll without the short-circuit: every child is evaluated
allLoopNoBreak(r, ctx, value, i, children, w) ==
    IF i > Len(r.Children)
    THEN [res |-> Result(IF \E k \in 1..Len(children) : children[k].Status = StatusFail
                         THEN StatusFail ELSE StatusPass,
                         r.Label, KindAll, "", children), w |-> w]
    ELSE LET c == validateRecursive(r.Children[i], ctx, value, w) IN
         IF c.w.panicked THEN c
         ELSE allLoopNoBreak(r, ctx, value, i + 1, Append(children, c.res), c.w)

\* the for-loop of validateAll at index i, children holding the results so far
allLoop(r, ctx, value, i, children, w) ==
    IF i > Len(r.Children)
    THEN [res |-> Result(StatusPass, r.Label, KindAll, "", children), w |-> w]
    ELSE LET c == validateRecursive(r.Children[i], ctx, value, w) IN
         IF c.w.panicked THEN c
         ELSE IF c.res.Status = StatusFail
         THEN IF HasNilFrom(r, i + 1) THEN Panic(c.w)
              ELSE [res |-> Result(StatusFail, r.Label, KindAll, "",
                                   Append(children, c.res) \o SkipsFrom(r, i + 1)),
                    w |-> c.w]
         ELSE allLoop(r, ctx, value, i + 1, Append(children, c.res), c.w)

validateAll(r, ctx, value, w) == allLoop(r, ctx, value, 1, <<>>, w)

RECURSIVE anyLoopNoSkips(_, _, _, _, _, _)
\* validateAny returning at the first Pass without the Skip placeholders
anyLoopNoSkips(r, ctx, value, i, children, w) ==
    IF i > Len(r.Children)
    THEN [res |-> Result(StatusFail, r.Label, KindAny, "", children), w |-> w]
    ELSE LET c == validateRecursive(r.Children[i], ctx, value, w) IN
         IF c.w.panicked THEN c
         ELSE IF c.res.Status = StatusPass
         THEN [res |-> Result(StatusPass, r.Label, KindAny, "", Append(children, c.res)),
               w |-> c.w]
         ELSE anyLoopNoSkips(r, ctx, value, i + 1, Append(children, c.res), c.w)

\* the for-loop of validateAny at index i, children holding the results so far
anyLoop(r, ctx, value, i, children, w) ==
    IF i > Len(r.Children)
    THEN [res |-> Result(StatusFail, r.Label, KindAny, "", children), w |-> w]
    ELSE LET c == validateRecursive(r.Children[i], ctx, value, w) IN
         IF c.w.panicked THEN c
         ELSE IF c.res.Status = StatusPass
         THEN IF HasNilFrom(r, i + 1) THEN Panic(c.w)
              ELSE [res |-> Result(StatusPass, r.Label, KindAny, "",
                                   Append(children, c.res) \o SkipsFrom(r, i + 1)),
                    w |-> c.w]
         ELSE anyLoop(r, ctx, value, i + 1, Append(children, c.res), c.w)

\* validateAny treating an empty child list as vacuously satisfied
validateAnyEmptyPasses(r, ctx, value, w) ==
    IF Len(r.Children) = 0
    THEN [res |-> Result(StatusPass, r.Label, KindAny, "", <<>>), w |-> w]
    ELSE anyLoop(r, ctx, value, 1, <<>>, w)

validateAny(r, ctx, value, w) == anyLoop(r, ctx, value, 1, <<>>, w)

\* the child's status passed through instead of inverted
NotStatusKept(childStatus) == childStatus

\* the inversion of the child's status in validateNot
NotStatus(childStatus) ==
    IF childStatus = StatusPass THEN StatusFail
    ELSE IF childStatus = StatusFail THEN StatusPass
    ELSE StatusSkip

\* validateNot rejecting only an empty child list
validateNotFirstChild(r, ctx, value, w) ==
    IF Len(r.Children) < 1
    THEN [res |-> Result(StatusFail, r.Label, KindNot,
                         "not rule must have exactly one child", <<>>), w |-> w]
    ELSE LET c == validateRecursive(r.Children[1], ctx, value, w) IN
         IF c.w.panicked THEN c
         ELSE [res |-> Result(NotStatus(c.res.Status), r.Label, KindNot,
                              IF c.res.Status = StatusPass
                              THEN "not rule failed (child passed)" ELSE "",
                              <<c.res>>),
               w |-> c.w]

validateNot(r, ctx, value, w) ==
    IF Len(r.Children) # 1
    THEN [res |-> Result(StatusFail, r.Label, KindNot,
                         "not rule must have exactly one child", <<>>), w |-> w]
    ELSE LET c == validateRecursive(r.Children[1], ctx, value, w) IN
         IF c.w.panicked THEN c
         ELSE [res |-> Result(NotStatus(c.res.Status), r.Label, KindNot,
                              IF c.res.Status = StatusPass
                              THEN "not rule failed (child passed)" ELSE "",
                              <<c.res>>),
               w |-> c.w]

\* thenRest evaluating the next rule although the transform failed
thenRestIgnoreErr(r, ctx, value, first, w) ==
    LET t == TransformOut(r.Transform.name, value)
        w1 == [w EXCEPT !.calls = Append(@, [fn |-> r.Transform.name, arg |-> value])]
        n == validateRecursive(r.NextRule, ctx, t.val, w1)
    IN  IF n.w.panicked THEN n
        ELSE [res |-> Result(IF n.res.Status = StatusPass THEN StatusPass
                             ELSE IF n.res.Status = StatusFail THEN StatusFail
                             ELSE StatusSkip,
                             r.Label, KindThen,
                             IF n.res.Status = StatusFail THEN "second rule failed" ELSE "",
                             Append(first, n.res)),
              w |-> n.w]

\* thenRest attaching the next rule's result before the first rule's
thenRestNextFirst(r, ctx, value, first, w) ==
    LET t == TransformOut(r.Transform.name, value)
        w1 == [w EXCEPT !.calls = Append(@, [fn |-> r.Transform.name, arg |-> value])]
    IN  IF ~t.err.isNil
        THEN [res |-> Result(StatusFail, r.Label, KindThen,
                             "transform failed: " \o t.err.msg, first), w |-> w1]
        ELSE LET n == validateRecursive(r.NextRule, ctx, t.val, w1) IN
             IF n.w.panicked THEN n
             ELSE [res |-> Result(IF n.res.Status = StatusPass THEN StatusPass
                                  ELSE IF n.res.Status = StatusFail THEN StatusFail
                                  ELSE StatusSkip,
                                  r.Label, KindThen,
                                  IF n.res.Status = StatusFail
                                  THEN "second rule failed" ELSE "",
                                  <<n.res>> \o first),
                   w |-> n.w]

\* the second half of validateThen: transform, next rule, combination;
\* first is the sequence holding firstResult when there is one
thenRest(r, ctx, value, first, w) ==
    LET t == TransformOut(r.Transform.name, value)
        w1 == [w EXCEPT !.calls = Append(@, [fn |-> r.Transform.name, arg |-> value])]
    IN  IF ~t.err.isNil
        THEN [res |-> Result(StatusFail, r.Label, KindThen,
                             "transform failed: " \o t.err.msg, first), w |-> w1]
        ELSE LET n == validateRecursive(r.NextRule, ctx, t.val, w1) IN
             IF n.w.panicked THEN n
             ELSE [res |-> Result(IF n.res.Status = StatusPass THEN StatusPass
                                  ELSE IF n.res.Status = StatusFail THEN StatusFail
                                  ELSE StatusSkip,
                                  r.Label, KindThen,
                                  IF n.res.Status = StatusFail
                                  THEN "second rule failed" ELSE "",
                                  Append(first, n.res)),
                   w |-> n.w]

\* validateThen going on to the transform although the first rule failed
validateThenNoGate(r, ctx, value, w) ==
    IF r.Transform = NilFn \/ r.NextRule = NilRule
    THEN [res |-> Result(StatusFail, r.Label, KindThen,
                         "then rule missing transform or next rule", <<>>), w |-> w]
    ELSE IF Len(r.Children) > 0
    THEN LET f == validateRecursive(r.Children[1], ctx, value, w) IN
         IF f.w.panicked THEN f
         ELSE thenRest(r, ctx, value, <<f.res>>, f.w)
    ELSE thenRest(r, ctx, value, <<>>, w)

validateThen(r, ctx, value, w) ==
    IF r.Transform = NilFn \/ r.NextRule = NilRule
    THEN [res |-> Result(StatusFail, r.Label, KindThen,
                         "then rule missing transform or next rule", <<>>), w |-> w]
    ELSE IF Len(r.Children) > 0
    THEN LET f == validateRecursive(r.Children[1], ctx, value, w) IN
         IF f.w.panicked THEN f
         ELSE IF f.res.Status = StatusFail
         THEN [res |-> Result(StatusFail, r.Label, KindThen, "first rule failed",
                              <<f.res>>), w |-> f.w]
         ELSE thenRest(r, ctx, value, <<f.res>>, f.w)
    ELSE thenRest(r, ctx, value, <<>>, w)

\* the switch on r.Kind treating an undeclared kind as an All
dispatchUnknownAsAll(r, ctx, value, w) ==
    CASE r.Kind = KindTest -> validateTest(r, ctx, value, w)
      [] r.Kind = KindAny -> validateAny(r, ctx, value, w)
      [] r.Kind = KindNot -> validateNot(r, ctx, value, w)
      [] r.Kind = KindThen -> validateThen(r, ctx, value, w)
      [] OTHER -> validateAll(r, ctx, value, w)

\* the switch on r.Kind
dispatch(r, ctx, value, w) ==
    CASE r.Kind = KindTest -> validateTest(r, ctx, value, w)
      [] r.Kind = KindAll -> validateAll(r, ctx, value, w)
      [] r.Kind = KindAny -> validateAny(r, ctx, value, w)
      [] r.Kind = KindNot -> validateNot(r, ctx, value, w)
      [] r.Kind = KindThen -> validateThen(r, ctx, value, w)
      [] OTHER -> [res |-> Result(StatusFail, r.Label, r.Kind,
                                  "unknown rule kind: " \o KindString(r.Kind), <<>>),
                   w |-> w]

\* validateRecursive without the cancellation check
validateRecursiveNoCheck(r, ctx, value, w) ==
    IF r = NilRule THEN Panic(w)
    ELSE dispatch(r, ctx, value, [w EXCEPT !.tick = @ + 1])

\* validateRecursive reporting a cancelled node as skipped
validateRecursiveSkipOnCancel(r, ctx, value, w) ==
    IF r = NilRule THEN Panic(w)
    ELSE IF Done(ctx, w.tick)
    THEN [res |-> Result(StatusSkip, r.Label, r.Kind, "context cancelled", <<>>),
          w |-> [w EXCEPT !.tick = @ + 1]]
    ELSE dispatch(r, ctx, value, [w EXCEPT !.tick = @ + 1])

\* validateRecursive sampling the signal only where the node is structurally sound
validateRecursiveLateCheck(r, ctx, value, w) ==
    IF r = NilRule THEN Panic(w)
    ELSE IF /\ Done(ctx, w.tick)
            /\ r.Kind \in {KindTest, KindAll, KindAny, KindNot, KindThen}
            /\ r.Kind = KindNot => Len(r.Children) = 1
            /\ r.Kind = KindThen => (r.Transform # NilFn /\ r.NextRule # NilRule)
    THEN [res |-> Result(StatusFail, r.Label, r.Kind, "context cancelled", <<>>),
          w |-> [w EXCEPT !.tick = @ + 1]]
    ELSE dispatch(r, ctx, value, [w EXCEPT !.tick = @ + 1])

\* a nil receiver panics at its first field read, on either branch of the select
validateRecursive(r, ctx, value, w) ==
    IF r = NilRule THEN Panic(w)
    ELSE IF Done(ctx, w.tick)
    THEN [res |-> Result(StatusFail, r.Label, r.Kind, "context cancelled", <<>>),
          w |-> [w EXCEPT !.tick = @ + 1]]
    ELSE dispatch(r, ctx, value, [w EXCEPT !.tick = @ + 1])

\* ---------------------------------------------------------------- ThenRule pipelines
\* ThenRule[T, U] as built by its constructor Then(rule, transform, next)
ThenRule(first, transform, second) ==
    [First |-> first, Transform |-> transform, Second |-> second]

\* calling a caller-supplied transform (a nil function value panics)
callTransform(t, v, w) ==
    IF t = NilFn THEN [val |-> v, err |-> NilErr, w |-> [w EXCEPT !.panicked = TRUE]]
    ELSE [val |-> TransformOut(t.name, v).val,
          err |-> TransformOut(t.name, v).err,
          w |-> [w EXCEPT !.calls = Append(@, [fn |-> t.name, arg |-> v])]]

\* composedTransform handing f's output to g whatever f's error
composedTransformNoCheck(f, g, out, t, w) ==
    LET u == callTransform(f, t, w) IN
    IF u.w.panicked THEN u
    ELSE callTransform(g, u.val, u.w)

\* the closure ChainThen builds from tr.Transform (f) and transform (g); out is V
composedTransform(f, g, out, t, w) ==
    LET u == callTransform(f, t, w) IN
    IF u.w.panicked THEN u
    ELSE IF ~u.err.isNil THEN [val |-> Value(out, 0), err |-> u.err, w |-> u.w]
    ELSE callTransform(g, u.val, u.w)

\* calling the Transform field of a pipeline
ApplyTransform(t, v, w) ==
    IF t # NilFn /\ t.name = "chain" THEN composedTransform(t.f, t.g, t.out, v, w)
    ELSE callTransform(t, v, w)

\* ChainThen[T, U, V]: tr's first rule, the composed transform, the new second rule
ChainThen(tr, transform, next) ==
    ThenRule(tr.First,
             [name |-> "chain", f |-> tr.Transform, g |-> [name |-> transform], out |-> "V"],
             next)

\* ThenRule.validateRecursive
thenRuleValidateRecursive(tr, ctx, value, w) ==
    IF Done(ctx, w.tick)
    THEN [res |-> Result(StatusFail, "then", KindTest, "context cancelled", <<>>),
          w |-> [w EXCEPT !.tick = @ + 1]]
    ELSE LET f == validateRecursive(tr.First, ctx, value, [w EXCEPT !.tick = @ + 1]) IN
         IF f.w.panicked THEN f
         ELSE IF f.res.Status = StatusFail
         THEN [res |-> Result(StatusFail, "then", KindTest, "first rule failed", <<f.res>>),
               w |-> f.w]
         ELSE IF tr.Transform = NilFn THEN Panic(f.w)
         ELSE LET t == ApplyTransform(tr.Transform, value, f.w)
                  w1 == t.w
              IN  IF t.w.panicked THEN Panic(t.w)
                  ELSE IF ~t.err.isNil
                  THEN [res |-> Result(StatusFail, "then", KindTest,
                                       "transform failed: " \o t.err.msg, <<f.res>>),
                        w |-> w1]
                  ELSE LET n == validateRecursive(tr.Second, ctx, t.val, w1) IN
                       IF n.w.panicked THEN n
                       ELSE [res |-> Result(IF n.res.Status = StatusPass THEN StatusPass
                                            ELSE IF n.res.Status = StatusFail THEN StatusFail
                                            ELSE StatusSkip,
                                            "then", KindTest,
                                            IF n.res.Status = StatusFail
                                            THEN "second rule failed" ELSE "",
                                            <<f.res, n.res>>),
                             w |-> n.w]

\* ---------------------------------------------------------------- the rules the caller builds
SeqsUpTo(S, n) == UNION {[1..k -> S] : k \in 0..n}

Leaf(p) == Test(p, Fn(p))

Leaves == {Leaf(p) : p \in Preds}

\* well-formed subtrees used as children and pipeline stages
Subtrees ==
    Leaves \cup
    { All(<<Leaf("nonzero"), Leaf("fail")>>),
      Any(<<Leaf("fail"), Leaf("nonzero")>>),
      Not(Leaf("nonzero")),
      Then(Leaf("nonzero"), "parse", Leaf("pass")) }

\* malformed nodes a manual construction can produce
Malformed ==
    { NilRule,
      Rule("bare", KindTest, NilFn, <<>>, NilFn, NilRule),
      Rule("odd", KindUndeclared, NilFn, <<Leaf("pass")>>, NilFn, NilRule) }

Parts == Subtrees \cup Malformed

\* the trees evaluated: the parts themselves, every combinator over short lists of
\* parts (Not with any arity), Then through its constructor (nil first rule included)
\* and Then literals with no first rule or a missing transform / next rule
Rules ==
    Parts
    \cup {Rule(KindString(k), k, NilFn, s, NilFn, NilRule) :
              k \in {KindAll, KindAny, KindNot}, s \in SeqsUpTo(Parts, MaxChildren)}
    \cup {Then(f, t, n) : f \in Subtrees \cup {NilRule}, t \in Transforms, n \in Subtrees}
    \cup {Rule("then", KindThen, NilFn, s, t, n) :
              s \in SeqsUpTo(Leaves, 1),
              t \in {[name |-> x] : x \in Transforms} \cup {NilFn},
              n \in {typeEraseRule(x, "U") : x \in Subtrees} \cup {NilRule}}

\* the rules handed to the helpers: leaves, a combinator and a nil pointer
GivenParts == Leaves \cup {Any(<<Leaf("fail"), Leaf("nonzero")>>), NilRule}

\* the helper rules evaluated: OneOf and AtLeastN over lists one longer than the
\* combinators' (a third rule after two that pass), Optional around every part
HelperRules ==
    {OneOf(s) : s \in SeqsUpTo(GivenParts, MaxChildren + 1)}
    \cup {AtLeastN(n, s) : n \in 0..MaxChildren,
                           s \in SeqsUpTo(GivenParts, MaxChildren + 1)}
    \cup {Optional(r) : r \in Parts}

\* All and Any over leaves, one child longer than the other combinators (a child in
\* flight when the signal fires, the child entered next and one more after it)
LeafCombinators ==
    {Rule(KindString(k), k, NilFn, s, NilFn, NilRule) :
        k \in {KindAll, KindAny}, s \in [1..(MaxChildren + 1) -> Leaves]}

\* As over every transform, decode included, and every well-formed subtree
AsRules == {As(t, n) : t \in Transforms \cup {"decode"}, n \in Subtrees}

\* hand-built Then nodes whose transform returns a V into a next rule erased over U
MismatchedRules ==
    {Rule("then", KindThen, NilFn, <<>>, [name |-> "scale"], typeEraseRule(n, "U")) :
        n \in Leaves}

\* rules over a predicate whose error message spans two lines (errors.Join)
JoinedRules == {Leaf("joined"), Any(<<Leaf("joined"), Leaf("pass")>>)}

\* the ThenRule pipelines evaluated (nil first rule included)
Pipelines ==
    {ThenRule(f, [name |-> t], n) :
        f \in Subtrees \cup {NilRule}, t \in Transforms, n \in Subtrees}

\* the pipelines ChainThen builds from them
ChainedPipelines ==
    {ChainThen(p, g, n) : p \in Pipelines, g \in ChainTransforms, n \in Leaves}

IsPipeline(x) == "First" \in DOMAIN x

InputValues == {Value("T", n) : n \in 0..MaxVal}

Ctxs == {[fires |-> FALSE, at |-> 0]} \cup {[fires |-> TRUE, at |-> k] : k \in 0..MaxCancel}

\* ---------------------------------------------------------------- the state machine
\* rule, ctx, value: the rule built and the arguments of the call; pc, result, ok: the
\* caller's position and what Validate returned to it; calls: the predicate and
\* transform invocations of the call; formatted: what Format returned; heap: the
\* number of Result values allocated so far; addr: the address of the first of the
\* Result values of the returned tree
VARIABLES rule, ctx, value, pc, result, ok, calls, formatted, heap, addr

vars == <<rule, ctx, value, pc, result, ok, calls, formatted, heap, addr>>

Init ==
    /\ rule \in (Rules \ {NilRule}) \cup HelperRules \cup JoinedRules \cup LeafCombinators
                 \cup AsRules \cup MismatchedRules
                 \cup Pipelines \cup ChainedPipelines
    /\ ctx \in Ctxs
    /\ value \in InputValues
    /\ pc = "built"
    /\ result = NoResult
    /\ ok = FALSE
    /\ calls = <<>>
    /\ formatted = ""
    /\ heap = 0
    /\ addr = 0

\* Rule.Validate: the recursive walk, then result.OK(); a panic returns nothing
Validate ==
    /\ pc = "built"
    /\ ~IsPipeline(rule)
    /\ LET e == validateRecursive(rule, ctx, value, World0) IN
        /\ pc' = IF e.w.panicked THEN "panicked" ELSE "done"
        /\ result' = e.res
        /\ ok' = IF e.w.panicked THEN FALSE ELSE OK(e.res)
        /\ calls' = e.w.calls
        /\ addr' = heap
        /\ heap' = IF e.w.panicked THEN heap ELSE heap + NodeCount(e.res)
    /\ UNCHANGED <<rule, ctx, value, formatted>>

\* ThenRule.Validate
ThenRuleValidate ==
    /\ pc = "built"
    /\ IsPipeline(rule)
    /\ LET e == thenRuleValidateRecursive(rule, ctx, value, World0) IN
        /\ pc' = IF e.w.panicked THEN "panicked" ELSE "done"
        /\ result' = e.res
        /\ ok' = IF e.w.panicked THEN FALSE ELSE OK(e.res)
        /\ calls' = e.w.calls
        /\ addr' = heap
        /\ heap' = IF e.w.panicked THEN heap ELSE heap + NodeCount(e.res)
    /\ UNCHANGED <<rule, ctx, value, formatted>>

\* result.Format() on the tree Validate returned
FormatResult ==
    /\ pc = "done"
    /\ pc' = "formatted"
    /\ formatted' = Format(result)
    /\ UNCHANGED <<rule, ctx, value, result, ok, calls, heap, addr>>

Next == Validate \/ ThenRuleValidate \/ FormatResult

Spec == Init /\ [][Next]_vars

\* ---------------------------------------------------------------- concurrent callers
\* Several goroutines call Validate on one shared tree, each with its own value and
\* ctx. Here the variables ctx, value, pc, result, ok, calls, formatted and addr hold
\* one entry per caller; rule and heap are shared. A call reads the tree, its own
\* arguments and nothing else, and writes only Result values it allocates itself, so
\* the calls are taken one at a time in any order.
Callers == 1..MaxCallers

\* the shared trees: one of each kind of well-formed subtree
ConcRules == Subtrees

\* the signals of the callers: never firing, fired before the call, firing during it
ConcCtxs == {c \in Ctxs : ~c.fires \/ c.at \in {0, 2}}

InitConc ==
    /\ rule \in ConcRules
    /\ ctx \in [Callers -> ConcCtxs]
    /\ value \in [Callers -> InputValues]
    /\ pc = [c \in Callers |-> "built"]
    /\ result = [c \in Callers |-> NoResult]
    /\ ok = [c \in Callers |-> FALSE]
    /\ calls = [c \in Callers |-> <<>>]
    /\ formatted = [c \in Callers |-> ""]
    /\ heap = 0
    /\ addr = [c \in Callers |-> 0]

\* Validate returning to caller c a tree another caller was handed before (a result
\* kept on the rule and reused)
CallerValidateMemo(c) ==
    /\ pc[c] = "built"
    /\ IF \E d \in Callers : pc[d] = "done"
       THEN LET d == CHOOSE d \in Callers : pc[d] = "done" IN
            /\ pc' = [pc EXCEPT ![c] = "done"]
            /\ result' = [result EXCEPT ![c] = result[d]]
            /\ ok' = [ok EXCEPT ![c] = ok[d]]
            /\ calls' = [calls EXCEPT ![c] = <<>>]
            /\ addr' = [addr EXCEPT ![c] = addr[d]]
            /\ heap' = heap
       ELSE LET e == validateRecursive(rule, ctx[c], value[c], World0) IN
            /\ pc' = [pc EXCEPT ![c] = IF e.w.panicked THEN "panicked" ELSE "done"]
            /\ result' = [result EXCEPT ![c] = e.res]
            /\ ok' = [ok EXCEPT ![c] = IF e.w.panicked THEN FALSE ELSE OK(e.res)]
            /\ calls' = [calls EXCEPT ![c] = e.w.calls]
            /\ addr' = [addr EXCEPT ![c] = heap]
            /\ heap' = IF e.w.panicked THEN heap ELSE heap + NodeCount(e.res)
    /\ UNCHANGED <<rule, ctx, value, formatted>>

\* caller c's Rule.Validate on the shared tree
CallerValidate(c) ==
    /\ pc[c] = "built"
    /\ LET e == validateRecursive(rule, ctx[c], value[c], World0) IN
        /\ pc' = [pc EXCEPT ![c] = IF e.w.panicked THEN "panicked" ELSE "done"]
        /\ result' = [result EXCEPT ![c] = e.res]
        /\ ok' = [ok EXCEPT ![c] = IF e.w.panicked THEN FALSE ELSE OK(e.res)]
        /\ calls' = [calls EXCEPT ![c] = e.w.calls]
        /\ addr' = [addr EXCEPT ![c] = heap]
        /\ heap' = IF e.w.panicked THEN heap ELSE heap + NodeCount(e.res)
    /\ UNCHANGED <<rule, ctx, value, formatted>>

NextConc == \E c \in Callers : CallerValidate(c)

SpecConc == InitConc /\ [][NextConc]_vars

\* ---------------------------------------------------------------- properties
\* the evaluation has returned a Result (no panic unwound it)
Returned == pc \in {"done", "formatted"}

IsRule == ~IsPipeline(rule)

\* the label and kind the root's own Result carries
RootLabel == IF IsPipeline(rule) THEN "then" ELSE rule.Label

RootKind == IF IsPipeline(rule) THEN KindTest ELSE rule.Kind

\* the world in which the root's first sub-evaluation starts: the root sampled ctx once
World1 == [World0 EXCEPT !.tick = 1]

\* what child k of the root returns when evaluated by itself under a signal that never fires
Alone(k) == validateRecursive(rule.Children[k], ctx, value, World0)

AloneFails(k) == ~Alone(k).w.panicked /\ Alone(k).res.Status = StatusFail

AlonePasses(k) == ~Alone(k).w.panicked /\ Alone(k).res.Status = StatusPass

RECURSIVE CallsAlone(_)
\* the predicate and transform invocations of children 1..i, each evaluated by itself
CallsAlone(i) == IF i = 0 THEN <<>> ELSE CallsAlone(i - 1) \o Alone(i).w.calls

SkipOf(r) == Result(StatusSkip, r.Label, r.Kind, "", <<>>)

\* the root's children are rule nodes (no nil pointer among them)
NoNilChild == \A k \in 1..Len(rule.Children) : rule.Children[k] # NilRule

\* children 1..i each return a result when evaluated by themselves
AloneReturn(i) == \A k \in 1..i : ~Alone(k).w.panicked

\* C1: an All rule under a signal that never fires: with child i the first to fail the
\* result is Fail with n children, children 1..i their real results, children i+1..n
\* Skip placeholders, and only the predicates of children 1..i are invoked; with no
\* failing child the result is Pass with the n (Pass) results of the children.
C1_AllShortCircuit ==
    (pc # "built" /\ IsRule /\ rule.Kind = KindAll /\ ~ctx.fires /\ NoNilChild) =>
        LET n == Len(rule.Children) IN
        /\ \A i \in 1..n :
              (AloneReturn(i) /\ AloneFails(i) /\ \A k \in 1..(i - 1) : ~AloneFails(k)) =>
                 /\ Returned
                 /\ result.Status = StatusFail
                 /\ ~ok
                 /\ result.Label = rule.Label /\ result.Kind = KindAll
                 /\ Len(result.Children) = n
                 /\ \A k \in 1..i : result.Children[k] = Alone(k).res
                 /\ \A k \in (i + 1)..n : result.Children[k] = SkipOf(rule.Children[k])
                 /\ calls = CallsAlone(i)
        /\ (AloneReturn(n) /\ \A k \in 1..n : ~AloneFails(k)) =>
                 /\ Returned
                 /\ result.Status = StatusPass
                 /\ ok
                 /\ result.Label = rule.Label /\ result.Kind = KindAll
                 /\ Len(result.Children) = n
                 /\ \A k \in 1..n : /\ result.Children[k] = Alone(k).res
                                    /\ result.Children[k].Status = StatusPass
                 /\ calls = CallsAlone(n)

\* an All whose first child is a combinator that fails, with children of its own, and
\* whose last child is skipped
C1_Witness ==
    /\ Returned /\ IsRule /\ rule.Kind = KindAll /\ ~ctx.fires
    /\ Len(rule.Children) >= 2
    /\ result.Status = StatusFail
    /\ result.Children[1].Status = StatusFail /\ result.Children[1].Children # <<>>
    /\ result.Children[Len(rule.Children)].Status = StatusSkip
    /\ calls # <<>>

\* C2: an Any rule under a signal that never fires: with child i the first to pass the
\* result is Pass with n children, children 1..i their real results, children i+1..n
\* Skip placeholders, and only the predicates of children 1..i are invoked; with no
\* passing child the result is Fail with the n Fail results of the children.
C2_AnyShortCircuit ==
    (pc # "built" /\ IsRule /\ rule.Kind = KindAny /\ ~ctx.fires /\ NoNilChild) =>
        LET n == Len(rule.Children) IN
        /\ \A i \in 1..n :
              (AloneReturn(i) /\ AlonePasses(i) /\ \A k \in 1..(i - 1) : ~AlonePasses(k)) =>
                 /\ Returned
                 /\ result.Status = StatusPass
                 /\ ok
                 /\ result.Label = rule.Label /\ result.Kind = KindAny
                 /\ Len(result.Children) = n
                 /\ \A k \in 1..i : result.Children[k] = Alone(k).res
                 /\ \A k \in (i + 1)..n : result.Children[k] = SkipOf(rule.Children[k])
                 /\ calls = CallsAlone(i)
        /\ (AloneReturn(n) /\ \A k \in 1..n : ~AlonePasses(k)) =>
                 /\ Returned
                 /\ result.Status = StatusFail
                 /\ ~ok
                 /\ result.Label = rule.Label /\ result.Kind = KindAny
                 /\ Len(result.Children) = n
                 /\ \A k \in 1..n : /\ result.Children[k] = Alone(k).res
                                    /\ result.Children[k].Status = StatusFail
                 /\ calls = CallsAlone(n)

\* an Any whose first child is a combinator that passes, with children of its own, and
\* whose last child is skipped
C2_Witness ==
    /\ Returned /\ IsRule /\ rule.Kind = KindAny /\ ~ctx.fires
    /\ Len(rule.Children) >= 2
    /\ result.Status = StatusPass
    /\ result.Children[1].Status = StatusPass /\ result.Children[1].Children # <<>>
    /\ result.Children[Len(rule.Children)].Status = StatusSkip
    /\ calls # <<>>

\* C3: with the signal triggered before Validate, a rule of any kind returns ok = false
\* and Fail "context cancelled" with no children; no predicate or transform is invoked.
C3_CancelledBeforeValidate ==
    (pc # "built" /\ Done(ctx, 0)) =>
        /\ Returned
        /\ ~ok
        /\ result = Result(StatusFail, RootLabel, RootKind, "context cancelled", <<>>)
        /\ calls = <<>>

\* a well-formed Then pipeline evaluated under an already cancelled signal
C3_Witness ==
    /\ Returned /\ Done(ctx, 0)
    /\ IsRule /\ rule.Kind = KindThen /\ Len(rule.Children) = 1 /\ rule.Children[1] # NilRule
    /\ rule.Transform # NilFn /\ rule.NextRule # NilRule
    /\ result.Message = "context cancelled"

\* ---- the stages of a pipeline at the root (a Then rule or a ThenRule)
\* a Then rule holding its transform and next rule, or a ThenRule
IsThen ==
    \/ IsPipeline(rule)
    \/ rule.Kind = KindThen /\ rule.Transform # NilFn /\ rule.NextRule # NilRule

HasFirst == IsPipeline(rule) \/ Len(rule.Children) > 0

FirstRule == IF IsPipeline(rule) THEN rule.First ELSE rule.Children[1]

SecondRule == IF IsPipeline(rule) THEN rule.Second ELSE rule.NextRule

\* the first stage evaluated by itself, right after the pipeline's own entry check
First == validateRecursive(FirstRule, ctx, value, World1)

FirstFails == HasFirst /\ ~First.w.panicked /\ First.res.Status = StatusFail

\* the first stage is absent, or returned a result that is not Fail
FirstHolds == HasFirst => (~First.w.panicked /\ First.res.Status # StatusFail)

FirstResults == IF HasFirst THEN <<First.res>> ELSE <<>>

TOut == ApplyTransform(rule.Transform, value, World0)

\* the world after the first stage and the call of the transform
AfterTransform ==
    LET w == IF HasFirst THEN First.w ELSE World1 IN
    ApplyTransform(rule.Transform, value, w).w

\* the second stage evaluated by itself on the transformed value
Second == validateRecursive(SecondRule, ctx, TOut.val, AfterTransform)

\* C4: a Then pipeline whose first-stage result is Fail returns Fail "first rule failed"
\* with the first-stage result as its only child; the transform is not applied and the
\* second stage is not evaluated (the only calls are those of the first stage).
C4_FirstRuleFailed ==
    (pc # "built" /\ IsThen /\ ~Done(ctx, 0) /\ FirstFails) =>
        /\ Returned
        /\ ~ok
        /\ result = Result(StatusFail, RootLabel, RootKind, "first rule failed",
                           <<First.res>>)
        /\ Len(result.Children) = 1
        /\ calls = First.w.calls

\* a pipeline whose first stage fails on a value its transform and second stage accept
C4_Witness ==
    /\ Returned /\ IsThen /\ ~ctx.fires /\ FirstFails
    /\ TOut.err.isNil
    /\ ~Second.w.panicked /\ Second.res.Status = StatusPass

\* C5: a Then pipeline whose first stage does not fail and whose transform returns an
\* error returns Fail "transform failed: <reason>"; its children are the first-stage
\* result when there is a first stage and none otherwise; the second stage is not
\* evaluated (the calls end with the transform's).
C5_TransformFailed ==
    (pc # "built" /\ IsThen /\ ~Done(ctx, 0) /\ FirstHolds /\ ~TOut.err.isNil) =>
        /\ Returned
        /\ ~ok
        /\ result = Result(StatusFail, RootLabel, RootKind,
                           "transform failed: " \o TOut.err.msg, FirstResults)
        /\ Len(result.Children) = (IF HasFirst THEN 1 ELSE 0)
        /\ calls = AfterTransform.calls

\* a failing transform after a passing first stage
C5_Witness ==
    /\ Returned /\ IsThen /\ HasFirst /\ FirstHolds /\ ~TOut.err.isNil
    /\ result.Message = "transform failed: not a number"
    /\ Len(result.Children) = 1

\* a failing transform in a pipeline without a first stage
C5_WitnessNoFirst ==
    /\ Returned /\ IsThen /\ ~HasFirst /\ ~TOut.err.isNil
    /\ result.Children = <<>>

\* C6: a Then pipeline whose first stage does not fail and whose transform succeeds
\* takes the status of the second stage (Fail with "second rule failed", otherwise no
\* message); its children are the first-stage result, if any, then the second-stage
\* result: 2 children with a first stage, 1 without.
C6_SecondStage ==
    (pc # "built" /\ IsThen /\ ~Done(ctx, 0) /\ FirstHolds /\ TOut.err.isNil
        /\ ~Second.w.panicked) =>
        /\ Returned
        /\ result.Status = Second.res.Status
        /\ ok = (Second.res.Status = StatusPass)
        /\ result.Message =
              (IF Second.res.Status = StatusFail THEN "second rule failed" ELSE "")
        /\ result.Label = RootLabel /\ result.Kind = RootKind
        /\ result.Children = FirstResults \o <<Second.res>>
        /\ Len(result.Children) = (IF HasFirst THEN 2 ELSE 1)
        /\ calls = Second.w.calls

\* a second stage that fails after a first stage that passed
C6_Witness ==
    /\ Returned /\ IsThen /\ HasFirst /\ FirstHolds /\ TOut.err.isNil
    /\ result.Message = "second rule failed"
    /\ Len(result.Children) = 2
    /\ result.Children[1].Status = StatusPass

\* a second stage that passes in a pipeline without a first stage
C6_WitnessNoFirst ==
    /\ Returned /\ IsThen /\ ~HasFirst /\ TOut.err.isNil
    /\ result.Status = StatusPass
    /\ Len(result.Children) = 1

\* C7: a Then pipeline constructed with a nil first-stage rule is evaluable: the
\* transform is applied and the result holds no first-stage child (only the
\* second-stage result, or no child when the transform fails).
C7_NilFirstEvaluable ==
    (pc # "built" /\ IsThen /\ HasFirst /\ FirstRule = NilRule /\ ~Done(ctx, 0)) =>
        /\ Returned
        /\ Len(calls) >= 1 /\ calls[1] = TOut.w.calls[1]
        /\ IF TOut.err.isNil THEN Len(result.Children) = 1 ELSE result.Children = <<>>

\* C8: Validate under a signal that is not cancelled always returns a Result tree,
\* for every rule node, malformed ones included.
C8_NeverPanics ==
    (pc # "built" /\ ~ctx.fires) => Returned

\* the child of a Not at the root, evaluated by itself after the Not's entry check
NotChild == validateRecursive(rule.Children[1], ctx, value, World1)

\* C9: a Not rule with exactly one child inverts the child's status: Pass gives Fail
\* "not rule failed (child passed)", Fail gives Pass with no message, Skip gives Skip;
\* the child's result is the only child of the Not result.
C9_NotInverts ==
    (pc # "built" /\ IsRule /\ rule.Kind = KindNot /\ Len(rule.Children) = 1
        /\ ~Done(ctx, 0) /\ ~NotChild.w.panicked) =>
        /\ Returned
        /\ result.Children = <<NotChild.res>>
        /\ result.Label = rule.Label /\ result.Kind = KindNot
        /\ NotChild.res.Status = StatusPass =>
              /\ result.Status = StatusFail
              /\ result.Message = "not rule failed (child passed)"
              /\ ~ok
        /\ NotChild.res.Status = StatusFail =>
              /\ result.Status = StatusPass
              /\ result.Message = ""
              /\ ok
        /\ NotChild.res.Status = StatusSkip =>
              /\ result.Status = StatusSkip
              /\ ~ok
        /\ calls = NotChild.w.calls

\* a Not over a passing child, and a Not over a failing child
C9_Witness ==
    /\ Returned /\ IsRule /\ rule.Kind = KindNot /\ Len(rule.Children) = 1
    /\ ~ctx.fires
    /\ result.Status = StatusFail /\ result.Children[1].Status = StatusPass

C9_WitnessChildFails ==
    /\ Returned /\ IsRule /\ rule.Kind = KindNot /\ Len(rule.Children) = 1
    /\ ~ctx.fires
    /\ result.Status = StatusPass /\ result.Children[1].Status = StatusFail

\* C10: a Not rule whose child list does not hold exactly one child returns Fail
\* "not rule must have exactly one child" with no children, and evaluates no child.
C10_NotArity ==
    (pc # "built" /\ IsRule /\ rule.Kind = KindNot /\ Len(rule.Children) # 1
        /\ ~Done(ctx, 0)) =>
        /\ Returned
        /\ ~ok
        /\ result = Result(StatusFail, rule.Label, KindNot,
                           "not rule must have exactly one child", <<>>)
        /\ calls = <<>>

\* a Not with two children whose first child would have been evaluable
C10_Witness ==
    /\ Returned /\ IsRule /\ rule.Kind = KindNot /\ Len(rule.Children) = 2
    /\ ~ctx.fires
    /\ rule.Children[1] \in Leaves
    /\ result.Message = "not rule must have exactly one child"

\* a Not with no child
C10_WitnessEmpty ==
    /\ Returned /\ IsRule /\ rule.Kind = KindNot /\ rule.Children = <<>>
    /\ result.Message = "not rule must have exactly one child"

\* ---- empty combinators
\* C11: under a signal that does not fire, an All rule without children returns Pass
\* with no children and an Any rule without children returns Fail with no children,
\* whatever the input value; neither invokes a predicate.
C11_EmptyCombinators ==
    (pc # "built" /\ IsRule /\ rule.Kind \in {KindAll, KindAny} /\ rule.Children = <<>>
        /\ ~ctx.fires) =>
        /\ Returned
        /\ rule.Kind = KindAll =>
              (result = Result(StatusPass, rule.Label, KindAll, "", <<>>) /\ ok)
        /\ rule.Kind = KindAny =>
              (result = Result(StatusFail, rule.Label, KindAny, "", <<>>) /\ ~ok)
        /\ calls = <<>>

\* an empty Any has been evaluated, and so has an empty All
C11_Witness ==
    /\ Returned /\ IsRule /\ rule.Kind = KindAny /\ rule.Children = <<>> /\ ~ctx.fires
    /\ result.Status = StatusFail

C11_WitnessAll ==
    /\ Returned /\ IsRule /\ rule.Kind = KindAll /\ rule.Children = <<>> /\ ~ctx.fires
    /\ result.Status = StatusPass

\* ---- the boolean of Validate
RECURSIVE Nodes(_)
\* every node of a result tree
Nodes(res) == {res} \cup UNION {Nodes(res.Children[k]) : k \in 1..Len(res.Children)}

\* C12: the boolean Validate returns is true exactly when the status of the returned
\* result is Pass, and on every node of the returned tree OK() is true for Pass and
\* false for Fail and for Skip.
C12_OKIsPass ==
    Returned =>
        /\ ok <=> (result.Status = StatusPass)
        /\ \A n \in Nodes(result) :
              /\ n.Status = StatusPass => OK(n)
              /\ n.Status \in {StatusFail, StatusSkip} => ~OK(n)

\* a returned tree holding a Pass node, a Fail node and a Skip node
C12_Witness ==
    /\ Returned
    /\ ~ok
    /\ \E a, b, c \in Nodes(result) :
          a.Status = StatusPass /\ b.Status = StatusFail /\ c.Status = StatusSkip

C12_WitnessPass == Returned /\ ok /\ result.Status = StatusPass

\* ---- cancellation against structural errors
\* the root is a Not with the wrong arity, a node of no declared kind, or a Then
\* missing its transform or next rule
StructurallyBroken ==
    /\ IsRule
    /\ \/ rule.Kind = KindNot /\ Len(rule.Children) # 1
       \/ rule.Kind \notin {KindTest, KindAll, KindAny, KindNot, KindThen}
       \/ rule.Kind = KindThen /\ (rule.Transform = NilFn \/ rule.NextRule = NilRule)

\* C16: with the signal fired before the evaluation, a structurally broken root returns
\* Fail "context cancelled" with no children, not its structural-error message.
C16_CancelBeforeStructure ==
    (pc # "built" /\ StructurallyBroken /\ Done(ctx, 0)) =>
        /\ Returned
        /\ ~ok
        /\ result = Result(StatusFail, rule.Label, rule.Kind, "context cancelled", <<>>)
        /\ calls = <<>>

\* each of the three structural errors met an already fired signal
C16_Witness ==
    /\ Returned /\ IsRule /\ Done(ctx, 0)
    /\ rule.Kind = KindThen /\ rule.Transform = NilFn
    /\ result.Message = "context cancelled"

C16_WitnessNot ==
    /\ Returned /\ IsRule /\ Done(ctx, 0)
    /\ rule.Kind = KindNot /\ Len(rule.Children) = 2
    /\ result.Message = "context cancelled"

C16_WitnessKind ==
    /\ Returned /\ IsRule /\ Done(ctx, 0)
    /\ rule.Kind = KindUndeclared
    /\ result.Message = "context cancelled"

\* ---- cancellation during the first stage
NeverFires == [fires |-> FALSE, at |-> 0]

\* what the root would return under a signal that never fires
Uncancelled ==
    IF IsPipeline(rule) THEN thenRuleValidateRecursive(rule, NeverFires, value, World0)
    ELSE validateRecursive(rule, NeverFires, value, World0)

\* the signal fires after the pipeline's entry check and no later than the last
\* sampling the first stage is followed by
FiresDuringFirst ==
    /\ IsThen /\ HasFirst /\ FirstRule # NilRule
    /\ ~First.w.panicked
    /\ ctx.fires /\ 1 <= ctx.at /\ ctx.at <= First.w.tick

\* C17: when the signal fires during the first stage of a Then pipeline (after the
\* pipeline's own entry check), Validate returns ok = false with status Fail, and no
\* predicate of the second stage is invoked.
C17_CancelDuringFirst ==
    (pc # "built" /\ FiresDuringFirst) =>
        /\ Returned
        /\ ~ok
        /\ result.Status = StatusFail
        /\ \/ calls = First.w.calls
           \/ calls = AfterTransform.calls

\* the signal fired while the predicate of a first-stage leaf ran, in a pipeline that
\* passes under a signal that never fires
C17_Witness ==
    /\ Returned /\ FiresDuringFirst
    /\ FirstRule \in Leaves /\ ctx.at = 2
    /\ Uncancelled.res.Status = StatusPass
    /\ result.Message = "second rule failed"
    /\ result.Children[2].Message = "context cancelled"

\* ---- the helper rules at the root
IsHelper(p) == IsRule /\ rule.Kind = KindTest /\ rule.TestFn # NilFn /\ rule.TestFn.pred = p

\* the rules a OneOf or AtLeastN at the root was given
Given == rule.TestFn.rules

\* what given rule k returns when validated by itself
GivenAlone(k) == validateRecursive(Given[k], ctx, value, World0)

\* every given rule is a rule node whose validation returns
GivenReturn ==
    \A k \in 1..Len(Given) : Given[k] # NilRule /\ ~GivenAlone(k).w.panicked

\* the given rules that pass by themselves
GivenPassing == {k \in 1..Len(Given) : OK(GivenAlone(k).res)}

RECURSIVE GivenCalls(_)
\* the predicate and transform invocations of given rules 1..i, each validated by itself
GivenCalls(i) == IF i = 0 THEN <<>> ELSE GivenCalls(i - 1) \o GivenAlone(i).w.calls

\* C13: under a signal that does not fire, OneOf passes exactly when one of the given
\* rules passes; every given rule is validated once whatever the others return (the
\* invocations are those of all the given rules in order, and the result has no Skip
\* child); with no passing rule the message starts with "none of the rules passed",
\* with several it is "multiple rules passed (expected exactly one)".
C13_OneOf ==
    (pc # "built" /\ IsHelper("one-of") /\ ~ctx.fires /\ GivenReturn) =>
        /\ Returned
        /\ ok <=> (Cardinality(GivenPassing) = 1)
        /\ result.Label = "one-of" /\ result.Kind = KindTest /\ result.Children = <<>>
        /\ calls = GivenCalls(Len(Given))
        /\ Cardinality(GivenPassing) = 1 => (result.Status = StatusPass /\ result.Message = "")
        /\ Cardinality(GivenPassing) = 0 =>
              /\ result.Status = StatusFail
              /\ result.Message = "none of the rules passed: " \o
                    (IF Given = <<>> THEN "<nil>" ELSE GivenAlone(Len(Given)).res.Message)
        /\ Cardinality(GivenPassing) > 1 =>
              /\ result.Status = StatusFail
              /\ result.Message = "multiple rules passed (expected exactly one)"

\* the first two of three given rules passed and the third was invoked all the same;
\* only the second of the given rules passed; none passed
C13_Witness ==
    /\ Returned /\ IsHelper("one-of") /\ ~ctx.fires /\ GivenReturn
    /\ Len(Given) = 3 /\ GivenPassing = {1, 2}
    /\ Len(calls) = 3
    /\ result.Message = "multiple rules passed (expected exactly one)"

C13_WitnessOne ==
    /\ Returned /\ IsHelper("one-of") /\ ~ctx.fires /\ GivenReturn
    /\ GivenPassing = {2} /\ ok

C13_WitnessNone ==
    /\ Returned /\ IsHelper("one-of") /\ ~ctx.fires /\ GivenReturn
    /\ Len(Given) = 2 /\ GivenPassing = {}
    /\ result.Message = "none of the rules passed: validation failed"

\* C14: under a signal that does not fire, AtLeastN(n, rules...) passes exactly when at
\* least n of the given rules pass; every given rule is validated once, also after n
\* passes are reached; on failure the message is "only k rules passed (expected at
\* least n)" with k the number of rules that passed.
C14_AtLeastN ==
    (pc # "built" /\ IsHelper("at-least") /\ ~ctx.fires /\ GivenReturn) =>
        /\ Returned
        /\ ok <=> (Cardinality(GivenPassing) >= rule.TestFn.n)
        /\ result.Label = "at-least-" \o IntStr(rule.TestFn.n)
        /\ result.Kind = KindTest /\ result.Children = <<>>
        /\ calls = GivenCalls(Len(Given))
        /\ ok => (result.Status = StatusPass /\ result.Message = "")
        /\ ~ok =>
              /\ result.Status = StatusFail
              /\ result.Message =
                    "only " \o IntStr(Cardinality(GivenPassing))
                    \o " rules passed (expected at least " \o IntStr(rule.TestFn.n) \o ")"

\* n = 1 was reached by the first of two rules and the second was invoked all the same
C14_Witness ==
    /\ Returned /\ IsHelper("at-least") /\ ~ctx.fires /\ GivenReturn
    /\ rule.TestFn.n = 1 /\ Len(Given) = 2 /\ 1 \in GivenPassing
    /\ Given[2] \in Leaves
    /\ Len(calls) = 2
    /\ ok

C14_WitnessFail ==
    /\ Returned /\ IsHelper("at-least") /\ ~ctx.fires /\ GivenReturn
    /\ result.Message = "only 1 rules passed (expected at least 2)"

\* the rule an Optional at the root wraps, validated by itself
Wrapped == validateRecursive(rule.TestFn.rule, ctx, value, World0)

\* C15: under a signal that does not fire, Optional(rule) passes on the zero value
\* without validating the wrapped rule; on any other value it passes exactly when the
\* wrapped rule passes, and fails with the wrapped result's message otherwise.
C15_Optional ==
    (pc # "built" /\ IsHelper("optional") /\ ~ctx.fires) =>
        /\ IsZero(value) =>
              /\ Returned /\ ok
              /\ result = Result(StatusPass, "optional", KindTest, "", <<>>)
              /\ calls = <<>>
        /\ (~IsZero(value) /\ rule.TestFn.rule # NilRule /\ ~Wrapped.w.panicked) =>
              /\ Returned
              /\ ok <=> OK(Wrapped.res)
              /\ result = Result(IF OK(Wrapped.res) THEN StatusPass ELSE StatusFail,
                                 "optional", KindTest,
                                 IF OK(Wrapped.res) THEN "" ELSE Wrapped.res.Message, <<>>)
              /\ calls = Wrapped.w.calls

\* the zero value passed an Optional whose rule fails on it; a non-zero value failed
\* and another passed
C15_Witness ==
    /\ Returned /\ IsHelper("optional") /\ ~ctx.fires
    /\ IsZero(value) /\ ok
    /\ rule.TestFn.rule # NilRule /\ ~Wrapped.w.panicked /\ ~OK(Wrapped.res)

C15_WitnessFail ==
    /\ Returned /\ IsHelper("optional") /\ ~ctx.fires
    /\ ~IsZero(value) /\ ~ok /\ result.Message = "validation failed"

C15_WitnessPass ==
    /\ Returned /\ IsHelper("optional") /\ ~ctx.fires
    /\ ~IsZero(value) /\ ok /\ Len(calls) > 0

\* ---- chained pipelines
\* the root is a pipeline built by ChainThen
IsChain == IsPipeline(rule) /\ rule.Transform # NilFn /\ rule.Transform.name = "chain"

\* the prior pipeline's transform f on the input, and g on f's output, each called
\* by itself after the first stage
ChainF == callTransform(rule.Transform.f, value, First.w)

ChainG == callTransform(rule.Transform.g, ChainF.val, ChainF.w)

\* the composed transform called after the first stage
Composed == ApplyTransform(rule.Transform, value, First.w)

\* C19: the transform ChainThen composes from f and g short-circuits: when f fails, g
\* is not invoked and the composed transform returns the zero value of the output
\* type with f's error; when f succeeds it returns what g returns on f's output. The
\* evaluated pipeline reports accordingly.
C19_ChainShortCircuit ==
    (IsChain /\ FirstRule # NilRule /\ FirstHolds) =>
        /\ ~ChainF.err.isNil =>
              /\ Composed.val = Value("V", 0)
              /\ Composed.err = ChainF.err
              /\ Composed.w.calls = ChainF.w.calls
              /\ (pc # "built" /\ ~Done(ctx, 0)) =>
                    /\ Returned
                    /\ result.Message = "transform failed: " \o ChainF.err.msg
                    /\ calls = ChainF.w.calls
        /\ ChainF.err.isNil =>
              /\ Composed.val = ChainG.val
              /\ Composed.err = ChainG.err
              /\ Composed.w.calls = ChainG.w.calls
              /\ (pc # "built" /\ ~Done(ctx, 0)) =>
                    /\ Returned
                    /\ Len(calls) >= Len(ChainG.w.calls)
                    /\ SubSeq(calls, 1, Len(ChainG.w.calls)) = ChainG.w.calls
                    /\ ~ChainG.err.isNil =>
                          result.Message = "transform failed: " \o ChainG.err.msg

\* f failed with a non-zero value next to its error, and the pipeline reported f's error
C19_Witness ==
    /\ Returned /\ IsChain /\ FirstRule # NilRule /\ FirstHolds /\ ~ctx.fires
    /\ ~ChainF.err.isNil /\ ChainF.val.n # 0
    /\ result.Message = "transform failed: out of range"

\* f succeeded and g failed; f and g both succeeded and the second stage passed
C19_WitnessG ==
    /\ Returned /\ IsChain /\ FirstRule # NilRule /\ FirstHolds /\ ~ctx.fires
    /\ ChainF.err.isNil /\ ~ChainG.err.isNil
    /\ result.Message = "transform failed: not positive"

C19_WitnessBoth ==
    /\ Returned /\ IsChain /\ FirstRule # NilRule /\ FirstHolds /\ ~ctx.fires
    /\ ChainF.err.isNil /\ ChainG.err.isNil /\ ChainG.val = Value("V", 1)
    /\ ok

\* ---- the rendering of a result tree
\* the positions of the line breaks of a text, and the k-th of them
Breaks(text) == {i \in 1..Len(text) : SubSeq(text, i, i) = "\n"}

BreakAt(text, k) ==
    CHOOSE b \in Breaks(text) : Cardinality({c \in Breaks(text) : c < b}) = k - 1

\* the lines of a text; text after the last line break counts as a line
Lines(text) ==
    LET n == Cardinality(Breaks(text))
        last == IF n = 0 THEN 0 ELSE BreakAt(text, n)
        ended == [k \in 1..n |->
                     SubSeq(text, IF k = 1 THEN 1 ELSE BreakAt(text, k - 1) + 1,
                            BreakAt(text, k) - 1)]
    IN  IF last < Len(text) THEN Append(ended, SubSeq(text, last + 1, Len(text)))
        ELSE ended

HasBreak(text) == \E i \in 1..Len(text) : SubSeq(text, i, i) = "\n"

RECURSIVE PreOrder(_, _)
\* the nodes of a tree with their depths, depth-first, parents before children,
\* children in child order
PreOrder(res, d) ==
    LET RECURSIVE below(_)
        below(i) == IF i > Len(res.Children) THEN <<>>
                    ELSE PreOrder(res.Children[i], d + 1) \o below(i + 1)
    IN  <<[node |-> res, depth |-> d]>> \o below(1)

RECURSIVE Spaces(_)
Spaces(n) == IF n = 0 THEN "" ELSE " " \o Spaces(n - 1)

\* what the claim says a node at a depth renders as
NodeText(e) ==
    Spaces(2 * e.depth) \o "[" \o StatusString(e.node.Status) \o "] " \o e.node.Label
    \o " (" \o KindString(e.node.Kind) \o ")"
    \o (IF e.node.Message # "" THEN ": " \o e.node.Message ELSE "")

RECURSIVE Joined(_, _)
\* the texts of entries i.. of a pre-order list, each followed by a line break
Joined(es, i) == IF i > Len(es) THEN "" ELSE NodeText(es[i]) \o "\n" \o Joined(es, i + 1)

\* no label and no message of the returned tree holds a line break
OneLiners == \A n \in Nodes(result) : ~HasBreak(n.Label) /\ ~HasBreak(n.Message)

\* C20 as stated: Format renders the tree with exactly one line per Result node, in
\* depth-first pre-order following child order, the node at depth d as 2*d spaces,
\* "[STATUS] label (kind)" and ": message" exactly when the message is not empty.
C20_OneLinePerNode ==
    pc = "formatted" =>
        Lines(formatted) =
            [k \in 1..NodeCount(result) |-> NodeText(PreOrder(result, 0)[k])]

\* C20 amended: Format renders, for each Result node in depth-first pre-order following
\* child order, 2*d spaces, "[STATUS] label (kind)", ": message" exactly when the
\* message is not empty, and a line break; that is exactly one line per node when no
\* label and no message holds a line break.
C20_Format ==
    pc = "formatted" =>
        /\ formatted = Joined(PreOrder(result, 0), 1)
        /\ Len(PreOrder(result, 0)) = NodeCount(result)
        /\ OneLiners =>
              Lines(formatted) =
                  [k \in 1..NodeCount(result) |-> NodeText(PreOrder(result, 0)[k])]

\* a rendered tree three levels deep with a message on the deepest level and a node
\* without message
C20_Witness ==
    /\ pc = "formatted" /\ OneLiners
    /\ \E k \in 1..Len(PreOrder(result, 0)) :
          PreOrder(result, 0)[k].depth = 2 /\ PreOrder(result, 0)[k].node.Message # ""
    /\ result.Message = ""
    /\ Len(Lines(formatted)) = NodeCount(result)

\* a rendered node whose message spans two lines
C20_WitnessTwoLines ==
    /\ pc = "formatted" /\ ~OneLiners
    /\ Len(Lines(formatted)) = NodeCount(result) + 1

\* ---- one tree, several callers
\* what caller c's call returns when it is the only call made
CallAlone(c) == validateRecursive(rule, ctx[c], value[c], World0)

\* the addresses of the Result values of the tree caller c was handed
Addrs(c) == addr[c]..(addr[c] + NodeCount(result[c]) - 1)

\* every finished call returned what it returns alone, and no two finished calls were
\* handed a Result value at the same address
CallsIndependent ==
    /\ \A c \in Callers : pc[c] = "done" =>
          /\ result[c] = CallAlone(c).res
          /\ ok[c] = OK(CallAlone(c).res)
          /\ calls[c] = CallAlone(c).w.calls
    /\ \A c, d \in Callers :
          (c # d /\ pc[c] = "done" /\ pc[d] = "done") => Addrs(c) \cap Addrs(d) = {}

RECURSIVE Mirrors(_, _)
\* the result node res carries the label and kind of rule node r, and below an All or
\* Any that was not cancelled, a Not with its one child and a Then, the result
\* children correspond to the rule's children (and next rule) in order
Mirrors(res, r) ==
    /\ r # NilRule
    /\ res.Label = r.Label
    /\ res.Kind = r.Kind
    /\ IF res.Status = StatusSkip \/ res.Message = "context cancelled"
       THEN res.Children = <<>>
       ELSE CASE r.Kind \in {KindAll, KindAny} ->
                   /\ Len(res.Children) = Len(r.Children)
                   /\ \A k \in 1..Len(r.Children) : Mirrors(res.Children[k], r.Children[k])
              [] r.Kind = KindNot ->
                   IF Len(r.Children) = 1
                   THEN Len(res.Children) = 1 /\ Mirrors(res.Children[1], r.Children[1])
                   ELSE res.Children = <<>>
              [] r.Kind = KindThen ->
                   \/ res.Children = <<>>
                   \/ /\ Len(res.Children) = 1
                      /\ \/ Len(r.Children) > 0 /\ Mirrors(res.Children[1], r.Children[1])
                         \/ Len(r.Children) = 0 /\ Mirrors(res.Children[1], r.NextRule)
                   \/ /\ Len(res.Children) = 2
                      /\ Len(r.Children) > 0
                      /\ Mirrors(res.Children[1], r.Children[1])
                      /\ Mirrors(res.Children[2], r.NextRule)
              [] OTHER -> res.Children = <<>>

C21_WitnessThen ==
    /\ Returned /\ IsRule /\ rule.Kind = KindThen /\ Len(result.Children) = 2
    /\ result.Children[2] = Result(StatusFail, "all", KindAll, "context cancelled", <<>>)

\* ---- undeclared kinds
\* C22: a rule node whose kind is none of the declared kinds, evaluated under a signal
\* that has not fired, returns ok = false and a Fail result whose message starts with
\* "unknown rule kind", without children; no child and no predicate is evaluated and
\* nothing panics.
C22_UnknownKind ==
    (pc # "built" /\ IsRule /\ ~Done(ctx, 0)
        /\ rule.Kind \notin {KindTest, KindAll, KindAny, KindNot, KindThen}) =>
        /\ Returned
        /\ ~ok
        /\ result = Result(StatusFail, rule.Label, rule.Kind,
                           "unknown rule kind: " \o KindString(rule.Kind), <<>>)
        /\ calls = <<>>

\* a node of an undeclared kind holding a child that would pass
C22_Witness ==
    /\ Returned /\ IsRule /\ ~ctx.fires
    /\ rule.Kind = KindUndeclared /\ Len(rule.Children) = 1 /\ rule.Children[1] \in Leaves
    /\ result.Message = "unknown rule kind: unknown"

\* ---- messages and Skip nodes
\* C26: in every returned tree a node whose status is Pass or Skip has an empty
\* message, and a Skip node has no children.
C26_QuietPassAndSkip ==
    Returned =>
        \A n \in Nodes(result) :
            /\ n.Status \in {StatusPass, StatusSkip} => n.Message = ""
            /\ n.Status = StatusSkip => n.Children = <<>>

\* a returned tree holding a Pass node with children, a Skip node and a Fail node
\* with a message
C26_Witness ==
    /\ Returned
    /\ \E a, b, c \in Nodes(result) :
          /\ a.Status = StatusPass /\ a.Children # <<>>
          /\ b.Status = StatusSkip
          /\ c.Status = StatusFail /\ c.Message # ""

RECURSIVE SkipsPlaced(_)
\* below res, a Skip node is a child of an All or Any result, every child between it
\* and the short-circuiting child (the first Fail of an All, the first Pass of an Any)
\* is a Skip too, and no child before that one has the short-circuiting status
SkipsPlaced(res) ==
    \A k \in 1..Len(res.Children) :
        /\ SkipsPlaced(res.Children[k])
        /\ res.Children[k].Status = StatusSkip =>
              /\ res.Kind \in {KindAll, KindAny}
              /\ \E j \in 1..(k - 1) :
                    /\ res.Children[j].Status =
                          (IF res.Kind = KindAll THEN StatusFail ELSE StatusPass)
                    /\ \A i \in (j + 1)..k : res.Children[i].Status = StatusSkip
                    /\ \A i \in 1..(j - 1) :
                          res.Children[i].Status =
                              (IF res.Kind = KindAll THEN StatusPass ELSE StatusFail)

\* C27: the root result Validate returns has status Pass or Fail, never Skip, for
\* every value and every timing of the signal; Skip occurs only on the children of an
\* All or Any result that follow the short-circuiting child, so no Not or Then that
\* evaluated a child has a Skip child or returns Skip.
C27_RootNeverSkip ==
    Returned =>
        /\ result.Status \in {StatusPass, StatusFail}
        /\ SkipsPlaced(result)
        /\ \A n \in Nodes(result) :
              (n.Kind \in {KindNot, KindThen} /\ n.Children # <<>>) =>
                  /\ n.Status \in {StatusPass, StatusFail}
                  /\ \A k \in 1..Len(n.Children) : n.Children[k].Status # StatusSkip

\* a Not over an All that short-circuited, and a Then whose first stage did, under a
\* signal that fires during the evaluation
C27_Witness ==
    /\ Returned /\ IsRule /\ rule.Kind = KindNot /\ Len(result.Children) = 1
    /\ result.Children[1].Kind = KindAll
    /\ \E k \in 1..Len(result.Children[1].Children) :
          result.Children[1].Children[k].Status = StatusSkip

C27_WitnessThen ==
    /\ Returned /\ IsRule /\ rule.Kind = KindThen /\ ctx.fires /\ ctx.at > 0
    /\ \E n \in Nodes(result) : n.Status = StatusSkip

\* ---- cancellation and the verdict
\* C28: when the signal fires and a node of the evaluation returns the "context
\* cancelled" failure, the root result is not Pass.
C28_CancelledNeverPasses ==
    (Returned /\ IsRule /\ ctx.fires
        /\ \E n \in Nodes(result) : n.Status = StatusFail /\ n.Message = "context cancelled") =>
        result.Status # StatusPass

\* ---- sampling of the signal
\* the root is an All or Any over Test leaves and the signal fires while the predicate
\* of child InFlight runs: after that child's entry check, before the next sampling
FiresInLeaf ==
    /\ IsRule /\ rule.Kind \in {KindAll, KindAny}
    /\ \A k \in 1..Len(rule.Children) : rule.Children[k] \in Leaves
    /\ ctx.fires /\ 2 <= ctx.at /\ ctx.at <= Len(rule.Children) + 1

InFlight == ctx.at - 1

\* the evaluation got as far as the child in flight
ReachedInFlight ==
    \A k \in 1..(InFlight - 1) :
        IF rule.Kind = KindAll THEN AlonePasses(k) ELSE AloneFails(k)

Cancelled(r) == Result(StatusFail, r.Label, r.Kind, "context cancelled", <<>>)

\* C25: the signal is sampled at node entry only: the Test whose predicate runs when
\* the signal fires returns what its predicate decides, and no predicate is invoked
\* afterwards; every child entered afterwards returns Fail "context cancelled", so the
\* remaining children of an Any are each that failure, and in an All the child entered
\* next is that failure and the children after it are Skip.
C25_SampledAtEntry ==
    (pc # "built" /\ FiresInLeaf /\ ReachedInFlight) =>
        /\ Returned
        /\ result.Children[InFlight] = Alone(InFlight).res
        /\ result.Children[InFlight].Message # "context cancelled"
        /\ calls = CallsAlone(InFlight)
        /\ (rule.Kind = KindAny /\ AloneFails(InFlight)) =>
              /\ result.Status = StatusFail
              /\ \A k \in (InFlight + 1)..Len(rule.Children) :
                    result.Children[k] = Cancelled(rule.Children[k])
        /\ (rule.Kind = KindAll /\ AlonePasses(InFlight)) =>
              /\ InFlight < Len(rule.Children) =>
                    /\ result.Status = StatusFail
                    /\ result.Children[InFlight + 1] = Cancelled(rule.Children[InFlight + 1])
              /\ \A k \in (InFlight + 2)..Len(rule.Children) :
                    result.Children[k] = SkipOf(rule.Children[k])

\* the signal fired in the first of three children: an Any whose two later children
\* are both the cancellation failure, an All whose second child is and whose third is
\* a Skip
C25_Witness ==
    /\ Returned /\ FiresInLeaf /\ rule.Kind = KindAny /\ Len(rule.Children) = 3
    /\ ctx.at = 2 /\ AloneFails(1)
    /\ result.Children[2].Message = "context cancelled"
    /\ result.Children[3].Message = "context cancelled"

C25_WitnessAll ==
    /\ Returned /\ FiresInLeaf /\ rule.Kind = KindAll /\ Len(rule.Children) = 3
    /\ ctx.at = 2 /\ AlonePasses(1)
    /\ result.Children[1].Status = StatusPass
    /\ result.Children[2].Message = "context cancelled"
    /\ result.Children[3].Status = StatusSkip

\* ---- type erasure
\* the root is a Then whose next rule is an erased Test, and the evaluation reaches it
\* with the transformed value
ReachesErasedTest ==
    /\ IsRule /\ rule.Kind = KindThen /\ rule.Transform # NilFn /\ rule.NextRule # NilRule
    /\ rule.NextRule.Kind = KindTest /\ rule.NextRule.TestFn # NilFn
    /\ rule.NextRule.TestFn.wrap # "none"
    /\ rule.NextRule.TestFn.pred \in Preds
    /\ ~ctx.fires
    /\ HasFirst => (FirstRule # NilRule /\ FirstHolds)
    /\ TOut.err.isNil

\* the type U the next rule was erased over
ErasedOver == rule.NextRule.TestFn.wrap

\* the value is of type U: of the concrete type U, or any value, nil included, when U
\* is an interface type
IsOfType(v, U) == U = "any" \/ v.ty = U

\* C23: an erased Test over U handed a value that is not of type U returns Fail with
\* a message naming U and the value's type, and its predicate is not invoked; handed
\* a value of type U it invokes the predicate on exactly that value.
C23_ErasedTest ==
    (pc # "built" /\ ReachesErasedTest) =>
        /\ Returned
        /\ LET n == result.Children[Len(result.Children)] IN
           IF IsOfType(TOut.val, ErasedOver)
           THEN /\ calls = Append(AfterTransform.calls,
                                  [fn |-> rule.NextRule.TestFn.pred, arg |-> TOut.val])
                /\ n.Message = PredErr(rule.NextRule.TestFn.pred, TOut.val).msg
           ELSE /\ calls = AfterTransform.calls
                /\ n.Status = StatusFail
                /\ n.Message = "type assertion failed: expected " \o ErasedOver
                               \o ", got " \o TOut.val.ty

\* a V handed to a Test erased over U was turned away with both types named
C23_Mismatch ==
    /\ Returned /\ ReachesErasedTest /\ ErasedOver = "U" /\ TOut.val.ty = "V"
    /\ result.Children[1].Message = "type assertion failed: expected U, got V"

\* the next rule n an As or Then at the root was built from
BuiltFrom(n) ==
    /\ IsRule /\ rule.Kind = KindThen /\ rule.Transform # NilFn
    /\ rule.NextRule = typeEraseRule(n, OutType(rule.Transform.name))

IsAs == IsRule /\ rule.Kind = KindThen /\ Len(rule.Children) = 1
           /\ rule.Children[1] = Test("as", Fn("as"))

\* C24: under a signal that does not fire, As(transformFn, rule) passes exactly when
\* transformFn succeeds and rule passes on the transformed value; when transformFn
\* fails the result is Fail, its message holds the transform's error text and rule is
\* not evaluated.
C24_As ==
    \A n \in Subtrees :
        (pc # "built" /\ IsAs /\ BuiltFrom(n) /\ ~ctx.fires) =>
            /\ Returned
            /\ ok <=> (TOut.err.isNil /\ OK(validateRecursive(n, ctx, TOut.val, World0).res))
            /\ ~TOut.err.isNil =>
                  /\ result.Status = StatusFail
                  /\ result.Message = "transform failed: " \o TOut.err.msg
                  /\ calls = AfterTransform.calls

\* an As whose transform failed, and an As over a leaf that passed
C24_TransformFails ==
    /\ Returned /\ IsAs /\ ~ctx.fires /\ ~TOut.err.isNil
    /\ result.Message = "transform failed: not a number"

C24_Passes ==
    /\ Returned /\ IsAs /\ ~ctx.fires /\ BuiltFrom(Leaf("nonzero"))
    /\ TOut.val = Value("U", 1) /\ ok

\* C29: type erasure preserves evaluation: the second-stage result of a Then whose
\* next rule was built from r (a Test, All, Any, Not or Then over U) is the tree that
\* evaluating r itself on the transformed value returns.
C29_ErasurePreserves ==
    \A n \in Subtrees :
        (Returned /\ BuiltFrom(n) /\ ~ctx.fires
            /\ Len(result.Children) = Len(rule.Children) + 1) =>
            result.Children[Len(result.Children)] =
                validateRecursive(n, ctx, TOut.val, World0).res

\* erasure preserved the evaluation of an All over U
C29_PreservedAll ==
    /\ Returned /\ BuiltFrom(All(<<Leaf("nonzero"), Leaf("fail")>>)) /\ ~ctx.fires
    /\ TOut.val = Value("U", 1)
    /\ Len(result.Children) = 2
    /\ result.Children[2] =
          validateRecursive(All(<<Leaf("nonzero"), Leaf("fail")>>), ctx, TOut.val, World0).res

\* ---- chaining
\* the chain at the root was built from pipeline p
ChainedFrom(p, g, n) == IsChain /\ rule = ChainThen(p, g, n)

\* what p alone returns on the root call's input
PriorAlone(p) == thenRuleValidateRecursive(p, ctx, value, World0)

\* C30: chaining never accepts what the prior pipeline rejects: when p fails on a
\* value, at its first stage, its transform or its second stage, ChainThen(p, g, next)
\* fails on that value too.
C30_ChainKeepsRejections ==
    \A p \in Pipelines, g \in ChainTransforms, n \in Leaves :
        (Returned /\ ChainedFrom(p, g, n) /\ ~ctx.fires
            /\ ~PriorAlone(p).w.panicked
            /\ PriorAlone(p).res.Status = StatusFail) => ~ok

\* a chain rejected what its prior pipeline rejects at the first stage
C30_RejectedAtFirst ==
    \E p \in Pipelines, g \in ChainTransforms, n \in Leaves :
        /\ Returned /\ ChainedFrom(p, g, n) /\ ~ctx.fires
        /\ ~PriorAlone(p).w.panicked
        /\ PriorAlone(p).res.Message = "first rule failed"
        /\ ~ok

====
